---- MODULE Spec2Model ----
(***************************************************************************)
(* EdgeLogger (src/src/index.ts): the log buffer, the time/count flush     *)
(* scheduler and the flush executor, as a state machine over the           *)
(* JavaScript event loop.                                                  *)
(*                                                                         *)
(* Execution model.  The engine runs on one thread.  A step of the model   *)
(* is one run-to-suspension of engine code:                                *)
(*   - a call made by the application (a record method, flush()), which    *)
(*     runs the synchronous part of the callee up to its first await;      *)
(*   - one microtask: the continuation of an `await` of flush();           *)
(*   - one macrotask: a timer callback, the arrival of a fetch response    *)
(*     (or fault), the end of a response body read.  Macrotasks run only   *)
(*     when the microtask queue is empty.                                  *)
(* `await x` always suspends: on null or on a settled promise the          *)
(* continuation is queued as a microtask at once; on a pending promise it  *)
(* is queued, in registration order, when the promise settles.             *)
(***************************************************************************)
EXTENDS Integers, Sequences, FiniteSets

\* Bounds of the model.
MaxRecords == 2      \* record-method calls made by the application
MaxCalls == 3        \* flush() calls made in all: by the application, a timer or a count
MaxThreshold == 2    \* flushAfterLogs is drawn from 1..MaxThreshold

VARIABLES
    isLocalDev,      \* this.isLocalDev
    ctx,             \* this.ctx is present (TRUE) or missing (FALSE)
    apiKey,          \* this.apiKey is non-empty (TRUE) or missing (FALSE)
    flushAfterLogs,  \* this.flushAfterLogs
    logs,            \* this.logs: sequence of record ids, oldest first
    nlog,            \* number of record-method calls made so far
    stdout,          \* record calls written to console.log at record time
    flushTimeout,    \* this.flushTimeout: 0 (null) or the id of a timer
    timers,          \* timers armed in the host: set and neither fired nor cleared
    ntimers,         \* number of setTimeout calls made so far
    flushPromise,    \* this.flushPromise: 0 (null) or the call whose doFlush() made it
    calls,           \* every flush() call made so far, in call order
    queue,           \* the microtask queue: calls whose continuation is ready
    removed,         \* record ids taken out of this.logs by splice
    delivered,       \* record ids contained in a payload that got an ok response
    sentOnce,        \* record ids contained in at least one submitted payload
    sentTwice,       \* record ids contained in at least two submitted payloads
    failed,          \* some delivery got a non-ok response or a fault
    lastFailed,      \* payload of the latest failed delivery, <<>> once a later
                     \* delivery has been submitted (or if none failed)
    thrown           \* errors that escaped: "log" (rejected _log), "timer" (timer
                     \* callback), "flush" (rejected flush())

vars == <<isLocalDev, ctx, apiKey, flushAfterLogs, logs, nlog, stdout, flushTimeout,
          timers, ntimers, flushPromise, calls, queue, removed,
          delivered, sentOnce, sentTwice, failed, lastFailed, thrown>>

config == <<isLocalDev, ctx, apiKey, flushAfterLogs>>

\* What has happened so far; read by no operation.
history == <<removed, delivered, sentOnce, sentTwice, failed, lastFailed>>

Range(s) == {s[i] : i \in DOMAIN s}

\* A flush() call has returned: by the entry guard, or after line 178.
Complete(c) == c.pc \in {"skipped", "done"}

\* The promise made by doFlush() of call c is pending: doFlush awaits the
\* fetch (line 146) or the response body (lines 160, 165).
Pending(c) == c.pc \in {"fetch", "body"}

\* Array.prototype.splice(0, n): the elements removed and the elements left.
SpliceRemoved(s, n) == SubSeq(s, 1, IF n < Len(s) THEN n ELSE Len(s))
SpliceLeft(s, n) == SubSeq(s, (IF n < Len(s) THEN n ELSE Len(s)) + 1, Len(s))

Init ==
    /\ isLocalDev \in BOOLEAN
    /\ ctx \in BOOLEAN
    /\ apiKey \in BOOLEAN
    /\ flushAfterLogs \in 1..MaxThreshold
    /\ logs = <<>>
    /\ nlog = 0
    /\ stdout = {}
    /\ flushTimeout = 0
    /\ timers = {}
    /\ ntimers = 0
    /\ flushPromise = 0
    /\ calls = <<>>
    /\ queue = <<>>
    /\ removed = {}
    /\ delivered = {}
    /\ sentOnce = {}
    /\ sentTwice = {}
    /\ failed = FALSE
    /\ lastFailed = <<>>
    /\ thrown = {}

\* scheduleFlush whose reset drops the handle without clearTimeout.
scheduleFlush_NoClear(reset) ==
    LET ft == IF reset THEN 0 ELSE flushTimeout
    IN  IF ft = 0 /\ flushPromise = 0
        THEN [flushTimeout |-> ntimers + 1, timers |-> timers \cup {ntimers + 1},
              ntimers |-> ntimers + 1]
        ELSE [flushTimeout |-> ft, timers |-> timers, ntimers |-> ntimers]

\* scheduleFlush without the `!this.flushPromise` test of line 124.
scheduleFlush_IgnoresInFlight(reset) ==
    LET cleared == reset /\ flushTimeout # 0
        ft == IF cleared THEN 0 ELSE flushTimeout
        tm == IF cleared THEN timers \ {flushTimeout} ELSE timers
    IN  IF ft = 0
        THEN [flushTimeout |-> ntimers + 1, timers |-> tm \cup {ntimers + 1},
              ntimers |-> ntimers + 1]
        ELSE [flushTimeout |-> ft, timers |-> tm, ntimers |-> ntimers]

\* scheduleFlush(timeout, reset), lines 118-133: the handle, the armed timers
\* and the setTimeout count it leaves.
scheduleFlush(reset) ==
    LET cleared == reset /\ flushTimeout # 0
        ft == IF cleared THEN 0 ELSE flushTimeout
        tm == IF cleared THEN timers \ {flushTimeout} ELSE timers
    IN  IF ft = 0 /\ flushPromise = 0
        THEN [flushTimeout |-> ntimers + 1, timers |-> tm \cup {ntimers + 1},
              ntimers |-> ntimers + 1]
        ELSE [flushTimeout |-> ft, timers |-> tm, ntimers |-> ntimers]

\* The entry test of line 138 left out: a skip call is treated as any other.
EntryGuard_Ignored(skip) == FALSE

\* The entry guard of flush(), line 138.
EntryGuard(skip) == skip /\ flushPromise # 0

\* flush({skipIfInProgress: skip}) up to its first suspension, lines 135-174:
\* the entry guard, then `await this.flushPromise`.  before is the number of
\* records appended before the call, kept while the call runs.
flush(skip, origin, before) ==
    LET c == Len(calls) + 1
        call == [skip |-> skip, origin |-> origin, before |-> before,
                 pc |-> "barrier", payload |-> <<>>, outcome |-> "none",
                 failLine |-> FALSE, waiters |-> <<>>]
    IN  /\ Len(calls) < MaxCalls
        /\ IF EntryGuard(skip)
           THEN /\ calls' = Append(calls, [call EXCEPT !.pc = "skipped", !.before = 0])
                /\ UNCHANGED queue
           ELSE IF flushPromise # 0 /\ Pending(calls[flushPromise])
           THEN /\ calls' = Append([calls EXCEPT ![flushPromise].waiters = Append(@, c)],
                                   call)
                /\ UNCHANGED queue
           ELSE /\ calls' = Append(calls, call)
                /\ queue' = Append(queue, c)

\* _log in local-dev mode, lines 66-83: pretty-print and return.
LogLocalDev ==
    /\ stdout' = stdout \cup {nlog + 1}
    /\ UNCHANGED <<logs, flushTimeout, timers, ntimers, calls, queue, thrown>>

\* _log outside local-dev mode, lines 85-111.
LogBuffered ==
    LET r == nlog + 1
        lg == Append(logs, r)
    IN  /\ stdout' = IF ~apiKey \/ ~ctx THEN stdout \cup {r} ELSE stdout
        /\ logs' = lg
        /\ IF Len(lg) >= flushAfterLogs
           THEN LET s == IF flushTimeout # 0
                         THEN scheduleFlush(TRUE)
                         ELSE [flushTimeout |-> flushTimeout, timers |-> timers,
                               ntimers |-> ntimers]
                IN  /\ flushTimeout' = s.flushTimeout
                    /\ timers' = s.timers
                    /\ ntimers' = s.ntimers
                    /\ IF ctx
                       THEN flush(TRUE, "count", r) /\ UNCHANGED thrown
                       ELSE \* this.ctx.waitUntil on a missing ctx: TypeError
                            \* before flush() is called; _log's promise rejects
                            /\ thrown' = thrown \cup {"log"}
                            /\ UNCHANGED <<calls, queue>>
           ELSE LET s == scheduleFlush(FALSE)
                IN  /\ flushTimeout' = s.flushTimeout
                    /\ timers' = s.timers
                    /\ ntimers' = s.ntimers
                    /\ UNCHANGED <<calls, queue, thrown>>

\* _log without the local-dev return of line 82.
LogBody_NoDevReturn == LogBuffered

\* The body of _log, lines 63-111.
LogBody == IF isLocalDev THEN LogLocalDev ELSE LogBuffered

\* A record method (log, info, warn, error, debug), lines 181-207.
Log ==
    /\ nlog < MaxRecords
    /\ nlog' = nlog + 1
    /\ LogBody
    /\ UNCHANGED <<config, flushPromise, history>>

\* flush() or flush({skipIfInProgress}) called by the application.
ManualFlush(skip) ==
    /\ flush(skip, "manual", nlog)
    /\ UNCHANGED <<config, logs, nlog, stdout, flushTimeout, timers, ntimers,
                   flushPromise, history, thrown>>

\* The timer callback, lines 125-131.
TimerFire ==
    /\ queue = <<>>
    /\ \E t \in timers :
        /\ timers' = timers \ {t}
        /\ IF ctx
           THEN /\ flush(TRUE, "timer", nlog)
                /\ flushTimeout' = 0
                /\ UNCHANGED thrown
           ELSE \* this.ctx.waitUntil on a missing ctx: TypeError before
                \* doFlush() runs, the handle is never reset
                /\ thrown' = thrown \cup {"timer"}
                /\ UNCHANGED <<calls, queue, flushTimeout>>
    /\ UNCHANGED <<config, logs, nlog, stdout, ntimers, flushPromise, history>>

\* doFlush() of call c has returned: its promise settles and the awaits
\* registered on it are queued in registration order, the call's own
\* (line 177) first.
Settle(cs, c) == [cs EXCEPT ![c].pc = "settle", ![c].waiters = <<>>]

\* A settle that resumes only the call's own await and forgets the others.
Reactions_OwnOnly(c) == <<c>>

Reactions(c) == <<c>> \o calls[c].waiters

\* doFlush without the empty-buffer return of line 140.
NothingToDo_Missing == FALSE

\* Nothing to do, line 140.
NothingToDo == Len(logs) = 0

\* Line 176 of call c, `this.flushPromise = doFlush()`, up to the first
\* await of doFlush (lines 139-156), then `await this.flushPromise`.
StartFlush(c) ==
    /\ flushPromise' = c
    /\ IF NothingToDo
       THEN /\ calls' = [calls EXCEPT ![c].pc = "settle"]
            /\ queue' = Append(Tail(queue), c)
            /\ UNCHANGED <<sentOnce, sentTwice, lastFailed>>
       ELSE /\ calls' = [calls EXCEPT ![c].pc = "fetch", ![c].payload = logs,
                                      ![c].outcome = "pending"]
            /\ queue' = Tail(queue)
            /\ sentOnce' = sentOnce \cup Range(logs)
            /\ sentTwice' = sentTwice \cup (sentOnce \cap Range(logs))
            /\ lastFailed' = <<>>
    /\ UNCHANGED <<removed, delivered, failed>>

\* Line 178 of call c.  What the call sent is kept no longer.
FinishFlush(c) ==
    /\ flushPromise' = 0
    /\ calls' = [calls EXCEPT ![c].pc = "done", ![c].before = 0, ![c].payload = <<>>]
    /\ queue' = Tail(queue)
    /\ UNCHANGED history

\* The next microtask: the continuation of an await of flush().
RunMicrotask ==
    /\ queue # <<>>
    /\ LET c == Head(queue)
       IN  IF calls[c].pc = "barrier" THEN StartFlush(c) ELSE FinishFlush(c)
    /\ UNCHANGED <<config, logs, nlog, stdout, flushTimeout, timers, ntimers, thrown>>

\* A fault thrown inside the try block of doFlush and not caught: it
\* rejects doFlush() and, through line 177, flush().
Catch_Rethrow(t) == t \cup {"flush"}

\* The catch clause of doFlush, lines 168-170: the fault is written to
\* console.error and goes no further.  t is the set of escaped errors.
Catch(t) == t

\* A splice that leaves the last sent record behind.
RemoveSent_OffByOne(c) == SpliceLeft(logs, Len(calls[c].payload) - 1)

\* `this.logs.splice(0, logsCount)` of call c, line 159.
RemoveSent(c) == SpliceLeft(logs, Len(calls[c].payload))

\* The fetch of call c returns, lines 146-170: an ok response, a non-ok
\* response, or a thrown fault.
Response(c, out) ==
    /\ queue = <<>>
    /\ calls[c].pc = "fetch"
    /\ \/ /\ out = "ok"
          /\ logs' = RemoveSent(c)
          /\ removed' = removed \cup Range(SpliceRemoved(logs, Len(calls[c].payload)))
          /\ delivered' = delivered \cup Range(calls[c].payload)
          /\ calls' = [calls EXCEPT ![c].pc = "body", ![c].outcome = "ok"]
          /\ UNCHANGED <<queue, failed, lastFailed>>
       \/ /\ out = "bad"
          /\ calls' = [calls EXCEPT ![c].pc = "body", ![c].outcome = "bad"]
          /\ failed' = TRUE
          /\ lastFailed' = calls[c].payload
          /\ UNCHANGED <<logs, removed, delivered, queue>>
       \/ /\ out = "fault"
          /\ calls' = Settle([calls EXCEPT ![c].outcome = "fault",
                                           ![c].failLine = TRUE], c)
          /\ queue' = Reactions(c)
          /\ failed' = TRUE
          /\ lastFailed' = calls[c].payload
          /\ UNCHANGED <<logs, removed, delivered>>
    /\ thrown' = IF out = "fault" THEN Catch(thrown) ELSE thrown
    /\ UNCHANGED <<config, nlog, stdout, flushTimeout, timers, ntimers, flushPromise,
                   sentOnce, sentTwice>>

\* The body read of call c ends, lines 160 and 162-169: res.arrayBuffer()
\* after an ok response, res.text() after a non-ok one; either may throw,
\* which line 169 logs.
Body(c, fails) ==
    /\ queue = <<>>
    /\ calls[c].pc = "body"
    /\ calls' = Settle([calls EXCEPT ![c].failLine =
                            (calls[c].outcome = "bad" \/ fails)], c)
    /\ queue' = Reactions(c)
    /\ thrown' = IF fails THEN Catch(thrown) ELSE thrown
    /\ UNCHANGED <<config, logs, nlog, stdout, flushTimeout, timers, ntimers,
                   flushPromise, history>>

Next ==
    \/ Log
    \/ \E skip \in BOOLEAN : ManualFlush(skip)
    \/ TimerFire
    \/ RunMicrotask
    \/ \E c \in DOMAIN calls : \E out \in {"ok", "bad", "fault"} : Response(c, out)
    \/ \E c \in DOMAIN calls : \E fails \in BOOLEAN : Body(c, fails)

Spec == Init /\ [][Next]_vars

\* The host's scheduling: a ready continuation is run, and every submitted
\* fetch and every body read returns.
LiveRecords == 1    \* record-method calls made in a behaviour of LiveSpec

LiveNext ==
    \/ nlog < LiveRecords /\ Log
    \/ \E skip \in BOOLEAN : ManualFlush(skip)
    \/ TimerFire
    \/ RunMicrotask
    \/ \E c \in DOMAIN calls : \E out \in {"ok", "bad", "fault"} : Response(c, out)
    \/ \E c \in DOMAIN calls : \E fails \in BOOLEAN : Body(c, fails)

LiveSpec ==
    /\ Init /\ [][LiveNext]_vars
    /\ WF_vars(RunMicrotask)
    /\ WF_vars(\E c \in DOMAIN calls : \E out \in {"ok", "bad", "fault"} : Response(c, out))
    /\ WF_vars(\E c \in DOMAIN calls : \E fails \in BOOLEAN : Body(c, fails))

(***************************************************************************)
(* Properties.                                                             *)
(***************************************************************************)

\* s is an initial segment of t.
IsPrefix(s, t) == Len(s) <= Len(t) /\ SubSeq(t, 1, Len(s)) = s

\* Call c has submitted a payload and its doFlush() has not returned.
Outstanding(c) == Pending(calls[c])

\* Every delivery attempted so far has completed with an ok response and
\* nothing was written to the fallback sink.
AllSucceeded ==
    /\ ~failed
    /\ \A c \in DOMAIN calls : ~Outstanding(c) /\ ~calls[c].failLine

\* The engine is configured as documented: an API key and an execution
\* context are given, local-dev mode is off.
ValidConfig == ~isLocalDev /\ ctx /\ apiKey

\* C1: at no instant are two delivery attempts of the engine outstanding.
C1_SingleFlight ==
    ValidConfig => Cardinality({c \in DOMAIN calls : Outstanding(c)}) <= 1

\* C2: every record removed from the buffer was contained in a payload
\* whose delivery got a successful response.
C2_RemovedWereDelivered == ValidConfig => removed \subseteq delivered

\* C3: provided every delivery succeeds, each record is contained in at
\* most one submitted payload.
C3_NoDuplicateBatch == (ValidConfig /\ AllSucceeded) => sentTwice = {}

\* C4: two flush calls with skipIfInProgress=true on a non-empty buffer,
\* the second issued before the first completed, do not both attempt a
\* delivery.  (While nothing has been removed the buffer at a call holds the
\* records appended before it.)
C4_SkipCallsDeliverOnce ==
    \A c1, c2 \in DOMAIN calls :
        (/\ ValidConfig
         /\ c1 < c2
         /\ calls[c1].skip /\ calls[c2].skip
         /\ calls[c1].before >= 1 /\ calls[c2].before >= 1
         /\ removed = {})
        => ~(Outstanding(c1) /\ Outstanding(c2))

\* C5: when a flush() call without skipIfInProgress completes and every
\* delivery attempted so far succeeded, every record appended before the
\* call has been delivered and is no longer in the buffer.
C5_ManualFlushDelivers ==
    [][\A c \in DOMAIN calls :
        (/\ ValidConfig
         /\ calls[c].origin = "manual" /\ ~calls[c].skip
         /\ calls[c].pc = "settle" /\ calls'[c].pc = "done"
         /\ AllSucceeded')
        => /\ 1..calls[c].before \subseteq delivered'
           /\ 1..calls[c].before \cap Range(logs') = {}]_vars

\* C6: a successful delivery removes exactly the records of its snapshot;
\* the records appended after the snapshot remain, in their order.
C6_SuccessRemovesSnapshot ==
    [][\A c \in DOMAIN calls :
        (ValidConfig /\ calls[c].pc = "fetch" /\ calls'[c].outcome = "ok")
        => logs = calls[c].payload \o logs']_vars

\* C7: when a failing delivery (non-ok response or thrown fault) completes,
\* the buffer still holds every record of the snapshot, in the same order,
\* and a failure line has been written to the fallback sink.
C7_FailureKeepsBuffer ==
    [][\A c \in DOMAIN calls :
        (/\ ValidConfig
         /\ Outstanding(c)
         /\ calls'[c].pc = "settle"
         /\ calls'[c].outcome \in {"bad", "fault"})
        => /\ IsPrefix(calls[c].payload, logs')
           /\ calls'[c].failLine]_vars

\* C8: outside local-dev mode, a record
\* that was never included in a delivery attempt is not left in the buffer
\* with no timer armed, no flush in flight and no flush call running.
C8_NoStrandedRecord ==
    ValidConfig
    => \A r \in Range(logs) :
          r \notin sentOnce
          => \/ timers # {}
             \/ flushPromise # 0
             \/ \E c \in DOMAIN calls : ~Complete(calls[c])

\* C9: every append that leaves the buffer length >= flushAfterLogs calls
\* flush({skipIfInProgress: true}) for the registrar within that append.
C9_ThresholdAppendRegistersFlush ==
    [][(nlog' = nlog + 1 /\ Len(logs') > Len(logs) /\ Len(logs') >= flushAfterLogs)
        => /\ Len(calls') = Len(calls) + 1
           /\ calls'[Len(calls')].skip
           /\ calls'[Len(calls')].origin = "count"]_vars

\* C10: in local-dev mode the buffer stays empty, no timer is ever started
\* and no delivery attempt is ever made.
C10_LocalDevInert ==
    isLocalDev
    => /\ logs = <<>>
       /\ ntimers = 0 /\ timers = {} /\ flushTimeout = 0
       /\ sentOnce = {}
       /\ \A c \in DOMAIN calls : calls[c].outcome = "none" /\ calls[c].payload = <<>>

\* C10 witness: local-dev mode after every record call, a completed flush
\* with and one without skipIfInProgress.
C10_Witness ==
    /\ isLocalDev
    /\ nlog = MaxRecords
    /\ \E c1, c2 \in DOMAIN calls :
        /\ calls[c1].pc = "done" /\ calls[c1].skip
        /\ calls[c2].pc = "done" /\ ~calls[c2].skip

\* C11: at every instant at most one timer is armed.
C11_OneTimer == Cardinality(timers) <= 1

\* C11 witness: a second timer is armed after the first was cancelled by
\* the reset of a threshold crossing.
C11_Witness == ntimers = 2 /\ timers = {2} /\ "timer" \notin thrown /\ calls # <<>>

\* C12: whatever the delivery outcome, no flush() call raises, and no
\* record method raises because of a delivery outcome (with an execution
\* context nothing escapes at all).
C12_FailuresSwallowed == "flush" \notin thrown /\ (ctx => thrown = {})

\* C12 witness: flush calls have completed after an ok response, after a
\* non-ok response and after a thrown fault.
C12_Witness ==
    \E c1, c2, c3 \in DOMAIN calls :
        /\ calls[c1].pc = "done" /\ calls[c1].outcome = "ok"
        /\ calls[c2].pc = "done" /\ calls[c2].outcome = "bad"
        /\ calls[c3].pc = "done" /\ calls[c3].outcome = "fault"

\* C13: with the API key or the execution context missing (local-dev mode
\* off), every record call so far wrote its record to the fallback sink and
\* appended it to the buffer, and nothing raised an error.
C13_DegradedConfigProceeds ==
    (~isLocalDev /\ (~apiKey \/ ~ctx))
    => /\ stdout = 1..nlog
       /\ Range(logs) \cup removed = 1..nlog
       /\ thrown = {}

\* The scenario of C14: on a fresh engine exactly flushAfterLogs record
\* calls are made back to back; then the engine runs on its own (microtasks,
\* the timer, the delivery), with no further call by the application.
BurstNext ==
    \/ nlog < flushAfterLogs /\ Log
    \/ nlog = flushAfterLogs /\ RunMicrotask
    \/ nlog = flushAfterLogs /\ TimerFire
    \/ nlog = flushAfterLogs /\ \E c \in DOMAIN calls :
                                  \E out \in {"ok", "bad", "fault"} : Response(c, out)
    \/ nlog = flushAfterLogs /\ \E c \in DOMAIN calls :
                                  \E fails \in BOOLEAN : Body(c, fails)

BurstSpec == Init /\ [][BurstNext]_vars

\* The records of the burst, in call order.
Burst == [i \in 1..flushAfterLogs |-> i]

\* C14: in that scenario every submitted payload is the burst in call
\* order; as long as no delivery fails no record is sent twice (one payload
\* in all), and once the delivery has succeeded the buffer is empty and
\* stays empty, also after a later timer fire.
C14_BurstDeliveredOnce ==
    /\ \A c \in DOMAIN calls : Pending(calls[c]) => calls[c].payload = Burst
    /\ ~failed => sentTwice = {}
    /\ (~failed /\ delivered # {})
       => delivered = Range(Burst) /\ logs = <<>>

\* C14 witness: flushAfterLogs = 2, the burst was delivered by the
\* count-triggered flush and the timer restarted by the second append has
\* fired and its flush has completed.
C14_Witness ==
    /\ flushAfterLogs = 2 /\ nlog = 2
    /\ ~failed /\ delivered = {1, 2}
    /\ timers = {} /\ logs = <<>>
    /\ \E c1, c2 \in DOMAIN calls :
        /\ calls[c1].origin = "count" /\ calls[c1].pc = "done" /\ calls[c1].outcome = "ok"
        /\ calls[c2].origin = "timer" /\ calls[c2].pc = "done"

\* C15: whenever a delivery attempt is outstanding the in-flight-flush
\* handle is present.
C15_HandleCoversDelivery ==
    ValidConfig => ((\E c \in DOMAIN calls : Outstanding(c)) => flushPromise # 0)

\* This step is a record append that leaves the buffer length >= flushAfterLogs.
ThresholdAppend ==
    nlog' = nlog + 1 /\ Len(logs') > Len(logs) /\ Len(logs') >= flushAfterLogs

\* C16 as stated: immediately after such an append no timer is pending and
\* the append started no timer.
C16_NoTimerAfterThreshold ==
    [][ThresholdAppend => (timers' = {} /\ ntimers' = ntimers)]_vars

\* C16 as amended: such an append cancels the timer that was pending (it
\* never fires); it starts a new timer exactly when the pending-timer handle
\* was set before the append and no flush is in flight, and then that new
\* timer is the only one pending; otherwise no timer is pending after it.
C16_ResetRestartsTimer ==
    [][ThresholdAppend
        => /\ timers \cap timers' = {}
           /\ (ntimers' # ntimers) = (flushTimeout # 0 /\ flushPromise = 0)
           /\ timers' = (IF ntimers' # ntimers THEN {ntimers'} ELSE {})
           /\ flushTimeout' = (IF ntimers' # ntimers THEN ntimers' ELSE 0)]_vars

\* C16 witness: right after the second append with flushAfterLogs = 2: the
\* first timer is cancelled, a second one is armed, the count-triggered
\* flush waits at its barrier.
C16_Witness ==
    /\ flushAfterLogs = 2 /\ logs = <<1, 2>>
    /\ ntimers = 2 /\ timers = {2} /\ flushTimeout = 2
    /\ \E c \in DOMAIN calls : calls[c].origin = "count" /\ calls[c].pc = "barrier"

\* This step is a flush call with skipIfInProgress = true made while the
\* in-flight-flush handle is present.
GuardedCall ==
    /\ Len(calls') = Len(calls) + 1
    /\ calls'[Len(calls')].skip
    /\ flushPromise # 0

\* C17: a flush call with skipIfInProgress = true made while the
\* in-flight-flush handle is present returns at once (it is complete in the
\* very step that makes it), registers no continuation, leaves the handle,
\* every other call and the delivery history as they were, and, when it is a
\* direct flush call (not wrapped in an append or a timer callback, which
\* have effects of their own), leaves the buffer and the pending-timer
\* handle unchanged too.
C17_EntryGuardNoOp ==
    [][GuardedCall
        => /\ calls'[Len(calls')].pc = "skipped"
           /\ SubSeq(calls', 1, Len(calls)) = calls
           /\ queue' = queue
           /\ flushPromise' = flushPromise
           /\ UNCHANGED history
           /\ calls'[Len(calls')].origin = "manual"
                => UNCHANGED <<logs, flushTimeout, timers, ntimers>>]_vars

\* C17 witness: a direct skip call returned at the entry test while the
\* flush that holds the handle is still delivering.
C17_Witness ==
    /\ flushPromise # 0
    /\ Pending(calls[flushPromise])
    /\ \E c \in DOMAIN calls :
        /\ c > flushPromise
        /\ calls[c].origin = "manual" /\ calls[c].skip /\ calls[c].pc = "skipped"

\* This step submits the payload of call c to the delivery client.
Submits(c) == calls[c].pc = "barrier" /\ calls'[c].pc = "fetch"

C19_NoEmptyDelivery ==
    [][/\ \A c \in DOMAIN calls' : Pending(calls'[c]) => calls'[c].payload # <<>>
       /\ \A c \in DOMAIN calls :
            (calls[c].pc = "barrier" /\ calls'[c].pc # "barrier" /\ logs = <<>>)
                => /\ calls'[c].pc = "settle"
                   /\ calls'[c].payload = <<>>
                   /\ logs' = logs
                   /\ sentOnce' = sentOnce /\ sentTwice' = sentTwice]_vars

\* C19 witness: the count-triggered flush has delivered and drained the
\* buffer, the timer armed by the reset has fired, and the flush it
\* requested has just found the buffer empty.
C19_Witness ==
    /\ logs = <<>> /\ delivered # {} /\ removed = delivered
    /\ \E c1, c2 \in DOMAIN calls :
        /\ calls[c1].origin = "count" /\ calls[c1].pc = "done" /\ calls[c1].outcome = "ok"
        /\ calls[c2].origin = "timer" /\ calls[c2].pc = "settle"
        /\ calls[c2].outcome = "none"

\* C20: provided continuations are run and every submitted delivery
\* returns, every flush call made eventually completes, and whenever no
\* flush call is running the in-flight-flush handle is absent.
C20_FlushTerminates ==
    /\ []((\A c \in DOMAIN calls : Complete(calls[c])) => flushPromise = 0)
    /\ \A c \in 1..MaxCalls :
        (c \in DOMAIN calls) ~> (c \in DOMAIN calls /\ Complete(calls[c]))

\* C20 witness: three overlapping calls, a skip call and two non-skip calls
\* of which one waited for the in-flight flush, have all completed and the
\* handle is absent.
C20_Witness ==
    /\ Len(calls) = 3 /\ flushPromise = 0
    /\ \A c \in DOMAIN calls : Complete(calls[c])
    /\ \E c1, c2, c3 \in DOMAIN calls :
        /\ c1 < c2 /\ c1 < c3
        /\ calls[c1].pc = "done" /\ calls[c1].outcome # "none"
        /\ calls[c2].skip /\ calls[c2].pc = "skipped"
        /\ ~calls[c3].skip /\ calls[c3].pc = "done"

====
